---- MODULE Spec2Model ----
(***************************************************************************)
(* A model of openwebvulndb-tools' file-backed Storage                     *)
(* (openwebvulndb/common/storage.py) and of the securityfocus tab parsers  *)
(* (openwebvulndb/common/securityfocus/parsers.py).                        *)
(*                                                                         *)
(* Representation.                                                         *)
(*  - A relative path is the sequence of its components, "k1/META.json"    *)
(*    being <<"k1", "META.json">>; the base path is the empty sequence.    *)
(*    A file name is a string, built and matched with string               *)
(*    concatenation.                                                       *)
(*  - A text (a file's content, a text node of a page) is the sequence of  *)
(*    its characters, each a one-character string.  In a stored JSON       *)
(*    document a lexical token counts as one character.                    *)
(*  - Python's None is the record None; a call's outcome is Returned(v),   *)
(*    Raised(e) or, for a generator, Generated(items, e).                  *)
(***************************************************************************)
EXTENDS Integers, Sequences, FiniteSets, TLC

VARIABLES
    files,          \* the regular files under the base path: path -> text
    dirs,           \* the directories under the base path (the base included)
    known,          \* Storage.known: the relative paths already prepared
    makedirs_log,   \* history: relative -> the makedirs calls issued / completed
    written,        \* history: <<key, kind, producer>> -> the entity last written
    written_folded, \* history: the same, the producer taken in lower case
    html_tree,      \* the parsed page the parser under study holds
    url,            \* ReferenceTabParser.url: the base URL given at construction
    call,           \* the operation called last, with its arguments
    ret             \* what that call returned, raised or yielded

vars == <<files, dirs, known, makedirs_log, written, written_folded, html_tree,
          url, call, ret>>
storage_vars == <<files, dirs, known, makedirs_log, written, written_folded>>
parser_vars == <<html_tree, url>>

-----------------------------------------------------------------------------
(* Values and outcomes *)

None == [kind |-> "None"]
Returned(v) == [tag |-> "return", val |-> v]
Raised(e) == [tag |-> "raise", exc |-> e]
Generated(items, e) == [tag |-> "generator", yielded |-> items, exc |-> e]
NoCall == [op |-> "none"]

\* Python values a parser returns: a str, a list, a datetime.
Str(s) == [kind |-> "str", s |-> s]
List(items) == [kind |-> "list", items |-> items]

-----------------------------------------------------------------------------
(* Texts *)

RECURSIVE lstrip(_, _)
lstrip(s, chars) ==
    IF s # <<>> /\ Head(s) \in chars THEN lstrip(Tail(s), chars) ELSE s

RECURSIVE rstrip(_, _)
rstrip(s, chars) ==
    IF s # <<>> /\ s[Len(s)] \in chars
    THEN rstrip(SubSeq(s, 1, Len(s) - 1), chars)
    ELSE s

\* str.strip(chars): the characters of chars removed from both ends.
strip(s, chars) == rstrip(lstrip(s, chars), chars)

\* The whitespace str.strip() and the regular expression class \s remove.
Whitespace == {" ", "\n", "\t"}

RECURSIVE Concat(_)
Concat(ss) == IF ss = <<>> THEN <<>> ELSE Head(ss) \o Concat(Tail(ss))

RECURSIVE Perms(_)
Perms(S) ==
    IF S = {} THEN {<<>>}
    ELSE UNION {{<<x>> \o p : p \in Perms(S \ {x})} : x \in S}

Override(f, k, v) == [x \in DOMAIN f \cup {k} |-> IF x = k THEN v ELSE f[x]]
Without(f, k) == [x \in DOMAIN f \ {k} |-> f[x]]

-----------------------------------------------------------------------------
(* The schema and serialization collaborators (schemas.py, serialize.py).  *)
(* An entity is [kind, key, producer, body]; only a vulnerability list has *)
(* a producer.  Its document is { kind key... | producer | body }.         *)

MetaSchema == "Meta"
VulnerabilityListSchema == "VulnerabilityList"
VersionListSchema == "VersionList"

Bodies == {"v1", "v2"}
Producers == {"p", "P", "q"}

Entity(kind, key, producer, body) ==
    [kind |-> kind, key |-> key, producer |-> producer, body |-> body]

\* serialize(schema, item) -> (data, errors)
serialize(schema, item) ==
    [data |-> <<"{", schema>> \o item.key
                  \o <<"|", item.producer, "|", item.body, "}">>,
     errors |-> {}]

\* json's decoder: surrounding whitespace is allowed, the rest is one object.
JsonDecodes(text) ==
    LET t == strip(text, Whitespace)
        n == Len(t)
    IN /\ n >= 6
       /\ t[1] = "{" /\ t[n] = "}"
       /\ t[n - 2] = "|" /\ t[n - 4] = "|"
       /\ \A i \in 2..(n - 1) : t[i] \notin {"{", "}"}

JsonValue(text) ==
    LET t == strip(text, Whitespace)
        n == Len(t)
    IN Entity(t[2], SubSeq(t, 3, n - 5), t[n - 3], t[n - 1])

\* schema.loads(text) -> (data, errors); raises JSONDecodeError on malformed text.
loads(schema, text) ==
    IF ~JsonDecodes(text) THEN Raised("JSONDecodeError")
    ELSE LET v == JsonValue(text)
             errors ==
                 {"kind" : x \in IF v.kind = schema THEN {} ELSE {1}}
                 \cup {"body" : x \in IF v.body \in Bodies THEN {} ELSE {1}}
                 \cup {"producer" : x \in
                         IF (schema = VulnerabilityListSchema) = (v.producer # "")
                         THEN {} ELSE {1}}
         IN Returned([data |-> v, errors |-> errors])

-----------------------------------------------------------------------------
(* The file system under the base path: os.makedirs, os.scandir, open *)

Prefixes(p) == {SubSeq(p, 1, i) : i \in 0..Len(p)}

\* os.path.dirname
dirname(p) == SubSeq(p, 1, Len(p) - 1)

\* Storage._path: join(self.base_path, *args)
path(args) == Concat(args)

\* What makedirs(p, mode=0o755, exist_ok=True) raises, "none" if it completes.
makedirs_error(p) ==
    IF p \in DOMAIN files THEN "FileExistsError"
    ELSE IF \E q \in Prefixes(p) : q \in DOMAIN files THEN "NotADirectoryError"
    ELSE "none"

\* What open(p, mode) raises in the tree with directories ds, "none" if it opens.
open_error(mode, p, ds) ==
    IF p \in ds THEN "IsADirectoryError"
    ELSE IF \E q \in Prefixes(dirname(p)) : q \in DOMAIN files
         THEN "NotADirectoryError"
    ELSE IF mode = "r"
         THEN (IF p \in DOMAIN files THEN "none" ELSE "FileNotFoundError")
    ELSE IF dirname(p) \in ds THEN "none" ELSE "FileNotFoundError"

\* The names os.scandir(p) lists.
scandir(p) ==
    {q[Len(q)] : q \in {e \in DOMAIN files \cup dirs :
                           Len(e) = Len(p) + 1 /\ SubSeq(e, 1, Len(p)) = p}}

Issued(relative) ==
    IF relative \in DOMAIN makedirs_log THEN makedirs_log[relative].issued ELSE 0
Completed(relative) ==
    IF relative \in DOMAIN makedirs_log THEN makedirs_log[relative].completed ELSE 0

-----------------------------------------------------------------------------
(* Storage *)

\* str.lower on the producers in use
lower(s) == CASE s = "P" -> "p" [] s = "Q" -> "q" [] OTHER -> s

\* _prepare_path without known.add: the directory is created and not remembered.
prepare_path_unrecorded(relative) ==
    IF relative \notin known
    THEN LET err == makedirs_error(relative)
             log == Override(makedirs_log, relative,
                        [issued |-> Issued(relative) + 1,
                         completed |-> Completed(relative)
                                          + (IF err = "none" THEN 1 ELSE 0)])
         IN IF err # "none"
            THEN [exc |-> err, dirs |-> dirs, known |-> known, log |-> log]
            ELSE [exc |-> "none", dirs |-> dirs \cup Prefixes(relative),
                  known |-> known, log |-> log]
    ELSE [exc |-> "none", dirs |-> dirs, known |-> known, log |-> makedirs_log]

\* Storage._prepare_path: the tree, the memo and the makedirs history after it,
\* and what it raised.
prepare_path(relative) ==
    IF relative \notin known
    THEN LET err == makedirs_error(relative)
             log == Override(makedirs_log, relative,
                        [issued |-> Issued(relative) + 1,
                         completed |-> Completed(relative)
                                          + (IF err = "none" THEN 1 ELSE 0)])
         IN IF err # "none"
            THEN [exc |-> err, dirs |-> dirs, known |-> known, log |-> log]
            ELSE [exc |-> "none", dirs |-> dirs \cup Prefixes(relative),
                  known |-> known \cup {relative}, log |-> log]
    ELSE [exc |-> "none", dirs |-> dirs, known |-> known, log |-> makedirs_log]

\* A file opened without truncation: the data lands after what it held.
write_keeping(old, data) == old \o data

\* What open(..., 'w') followed by fp.write(data) leaves in a file that held old.
write_truncating(old, data) == data

\* What open(..., 'a+') followed by fp.write(data) leaves in a file that held old.
write_appending(old, data) == old \o data

Content(p) == IF p \in DOMAIN files THEN files[p] ELSE <<>>

\* Storage._write(schema, item, name)
write(schema, item, name) ==
    LET data == serialize(schema, item).data
        pp == prepare_path(item.key)
        p == path(<<item.key, <<name>>>>)
        err == IF pp.exc # "none" THEN pp.exc ELSE open_error("w", p, pp.dirs)
    IN /\ dirs' = pp.dirs
       /\ known' = pp.known
       /\ makedirs_log' = pp.log
       /\ files' = IF err = "none"
                   THEN Override(files, p, write_truncating(Content(p), data))
                   ELSE files
       /\ ret' = IF err = "none" THEN Returned(None) ELSE Raised(err)

\* _read without the check of errors: whatever loads decoded is returned.
read_unchecked(schema, args) ==
    LET p == path(args)
        err == open_error("r", p, dirs)
    IN IF err # "none" THEN Raised(err)
       ELSE LET r == loads(schema, files[p])
            IN IF r.tag = "raise" THEN Returned(None)
               ELSE Returned(r.val.data)

\* Storage._read(schema, *args)
read(schema, args) ==
    LET p == path(args)
        err == open_error("r", p, dirs)
    IN IF err # "none" THEN Raised(err)
       ELSE LET r == loads(schema, files[p])
            IN IF r.tag = "raise" THEN Returned(None)
               ELSE IF r.val.errors # {} THEN Raised("Exception")
               ELSE Returned(r.val.data)

\* 'vuln-%s.json' % vlist.producer.lower() of write_vulnerabilities
write_vulnerabilities_name(producer) == "vuln-" \o lower(producer) \o ".json"

\* 'vuln-%s.json' % producer.lower() of read_vulnerabilities
read_vulnerabilities_name(producer) == "vuln-" \o lower(producer) \o ".json"

read_meta(key) == read(MetaSchema, <<key, <<"META.json">>>>)
read_vulnerabilities(key, producer) ==
    read(VulnerabilityListSchema, <<key, <<read_vulnerabilities_name(producer)>>>>)
read_versions(key) == read(VersionListSchema, <<key, <<"versions.json">>>>)

\* The words \w+ can match among the names in use.
Words == {"p", "P", "q", "Q", "d"}

\* name_format.match(name): the groups of ^vuln-(\w+)\.json$, none if no match.
name_format_match(name) == {w \in Words : name = "vuln-" \o w \o ".json"}

\* The entries of key's directory list_vulnerabilities reads.
Matching(key) ==
    {n \in scandir(path(<<key>>)) :
        name_format_match(n) # {} /\ path(<<key, <<n>>>>) \notin dirs}

\* The loop of list_vulnerabilities over the entries in the order scandir gave.
RECURSIVE list_loop(_, _, _)
list_loop(key, entries, yielded) ==
    IF entries = <<>> THEN Generated(yielded, "none")
    ELSE LET parts == CHOOSE w \in name_format_match(Head(entries)) : TRUE
             r == read_vulnerabilities(key, parts)
         IN IF r.tag = "raise" THEN Generated(yielded, r.exc)
            ELSE list_loop(key, Tail(entries), Append(yielded, r.val))

\* The file that holds the entity <<key, kind, producer>>.
EntityFile(key, kind, producer) ==
    path(<<key, <<CASE kind = MetaSchema -> "META.json"
                    [] kind = VersionListSchema -> "versions.json"
                    [] OTHER -> write_vulnerabilities_name(producer)>>>>)

\* The history without the entities whose file is p: an append to p is then
\* the last change of that file.
Forget(history, p) ==
    [t \in {u \in DOMAIN history : EntityFile(u[1], u[2], u[3]) # p} |-> history[t]]

Remember(item) ==
    /\ written' =
          IF ret'.tag = "return"
          THEN Override(written, <<item.key, item.kind, item.producer>>, item)
          ELSE written
    /\ written_folded' =
          IF ret'.tag = "return"
          THEN Override(written_folded,
                        <<item.key, item.kind, lower(item.producer)>>, item)
          ELSE written_folded

WriteMeta(meta) ==
    /\ call' = [op |-> "write_meta", key |-> meta.key]
    /\ write(MetaSchema, meta, "META.json")
    /\ Remember(meta)
    /\ UNCHANGED parser_vars

WriteVulnerabilities(vlist) ==
    /\ call' = [op |-> "write_vulnerabilities", key |-> vlist.key]
    /\ write(VulnerabilityListSchema, vlist, write_vulnerabilities_name(vlist.producer))
    /\ Remember(vlist)
    /\ UNCHANGED parser_vars

WriteVersions(vlist) ==
    /\ call' = [op |-> "write_versions", key |-> vlist.key]
    /\ write(VersionListSchema, vlist, "versions.json")
    /\ Remember(vlist)
    /\ UNCHANGED parser_vars

ReadMeta(key) ==
    /\ call' = [op |-> "read_meta", key |-> key]
    /\ ret' = read_meta(key)
    /\ UNCHANGED <<storage_vars, parser_vars>>

ReadVulnerabilities(key, producer) ==
    /\ call' = [op |-> "read_vulnerabilities", key |-> key, producer |-> producer]
    /\ ret' = read_vulnerabilities(key, producer)
    /\ UNCHANGED <<storage_vars, parser_vars>>

ReadVersions(key) ==
    /\ call' = [op |-> "read_versions", key |-> key]
    /\ ret' = read_versions(key)
    /\ UNCHANGED <<storage_vars, parser_vars>>

\* Storage.list_vulnerabilities, consumed to its end.  scandir gives the entries
\* in an arbitrary order; an entry that does not match, or is a directory, is
\* passed over wherever it stands, so the order of the others is what is drawn.
ListVulnerabilities(key) ==
    /\ call' = [op |-> "list_vulnerabilities", key |-> key]
    /\ LET err == IF path(<<key>>) \in dirs THEN "none"
                  ELSE IF path(<<key>>) \in DOMAIN files THEN "NotADirectoryError"
                  ELSE "FileNotFoundError"
       IN IF err # "none" THEN ret' = Generated(<<>>, err)
          ELSE \E order \in Perms(Matching(key)) :
                  ret' = list_loop(key, order, <<>>)
    /\ UNCHANGED <<storage_vars, parser_vars>>

\* The line with rstrip in place of strip: leading newlines stay.
append_line_rstrip(content) == rstrip(content, {"\n"}) \o <<"\n">>

\* content.strip("\n") + "\n"
append_line(content) == strip(content, {"\n"}) \o <<"\n">>

\* Storage.append(relative, content)
AppendTo(relative, content) ==
    LET pp == prepare_path(dirname(relative))
        p == path(<<relative>>)
        err == IF pp.exc # "none" THEN pp.exc ELSE open_error("a+", p, pp.dirs)
    IN /\ call' = [op |-> "append", relative |-> relative, content |-> content]
       /\ dirs' = pp.dirs
       /\ known' = pp.known
       /\ makedirs_log' = pp.log
       /\ files' = IF err = "none"
                   THEN Override(files, p,
                            write_appending(Content(p), append_line(content)))
                   ELSE files
       /\ ret' = IF err = "none" THEN Returned(None) ELSE Raised(err)
       /\ written' = IF err = "none" THEN Forget(written, p) ELSE written
       /\ written_folded' =
             IF err = "none" THEN Forget(written_folded, p) ELSE written_folded
       /\ UNCHANGED parser_vars

\* fp.readlines(): the text cut after each newline.
RECURSIVE readlines(_)
readlines(text) ==
    IF text = <<>> THEN <<>>
    ELSE LET ends == {i \in 1..Len(text) : text[i] = "\n"}
             cut == IF ends = {} THEN Len(text)
                    ELSE CHOOSE i \in ends : \A j \in ends : i <= j
         IN <<SubSeq(text, 1, cut)>> \o readlines(SubSeq(text, cut + 1, Len(text)))

\* What the loop of read_lines yields from a file's text.
lines_of(text) ==
    LET lines == readlines(text)
    IN [i \in 1..Len(lines) |-> strip(lines[i], {"\n"})]

\* Storage.read_lines(relative), consumed to its end.
ReadLines(relative) ==
    LET p == path(<<relative>>)
        err == open_error("r", p, dirs)
    IN /\ call' = [op |-> "read_lines", relative |-> relative]
       /\ ret' = IF err = "FileNotFoundError" THEN Generated(<<>>, "none")
                 ELSE IF err # "none" THEN Generated(<<>>, err)
                 ELSE Generated(lines_of(files[p]), "none")
       /\ UNCHANGED <<storage_vars, parser_vars>>

-----------------------------------------------------------------------------
(* The store, from an empty base directory, driven by a few entities.  The   *)
(* append calls put a file with an upper-case name beside the vulnerability  *)
(* lists of k1 and write text that is no document, or the document of        *)
(* another kind, where a Meta is read.                                      *)

MaxStoreLines == 1  \* the store's driver appends while the tree holds fewer lines
MaxCalls == 2       \* makedirs is issued at most this often for one path

K1 == <<"k1">>
K2 == <<"k2">>
KD == <<"k1", "vuln-d.json">>

StoreMetas ==
    {Entity(MetaSchema, K1, "", b) : b \in Bodies}
        \cup {Entity(MetaSchema, K2, "", "v1"), Entity(MetaSchema, KD, "", "v1")}
StoreVulnerabilities ==
    {Entity(VulnerabilityListSchema, K1, p, "v1") : p \in Producers}
StoreVersions == {Entity(VersionListSchema, K1, "", "v1")}
StoreAppends ==
    {<<"k1", "vuln-Q.json">>, <<"k2", "META.json">>}
        \X {<<"x">>,
            serialize(VulnerabilityListSchema,
                      Entity(VulnerabilityListSchema, K1, "Q", "v1")).data}

NoFiles == [x \in {} |-> <<>>]
NoResult == [tag |-> "none"]

StorageInit ==
    /\ files = NoFiles
    /\ dirs = {<<>>}
    /\ known = {}
    /\ makedirs_log = NoFiles
    /\ written = NoFiles
    /\ written_folded = NoFiles
    /\ call = NoCall
    /\ ret = NoResult

Init == StorageInit /\ html_tree = None /\ url = None

\* The bounds under which a call that targets directory relative is made.
Within(relative) == relative \in known \/ Issued(relative) < MaxCalls

\* The lines the tree holds: append ends each text it writes with one newline.
RECURSIVE Count(_, _)
Count(text, c) ==
    IF text = <<>> THEN 0
    ELSE (IF Head(text) = c THEN 1 ELSE 0) + Count(Tail(text), c)
RECURSIVE LinesIn(_)
LinesIn(ps) ==
    IF ps = {} THEN 0
    ELSE LET p == CHOOSE q \in ps : TRUE
         IN Count(files[p], "\n") + LinesIn(ps \ {p})
Lines == LinesIn(DOMAIN files)

Next ==
    \/ \E meta \in StoreMetas : Within(meta.key) /\ WriteMeta(meta)
    \/ \E vlist \in StoreVulnerabilities :
          Within(vlist.key) /\ WriteVulnerabilities(vlist)
    \/ \E vlist \in StoreVersions : Within(vlist.key) /\ WriteVersions(vlist)
    \/ \E key \in {K1, K2} : ReadMeta(key)
    \/ \E key \in {K1}, producer \in Producers : ReadVulnerabilities(key, producer)
    \/ \E key \in {K1} : ReadVersions(key)
    \/ \E key \in {K1, K2} : ListVulnerabilities(key)
    \/ \E a \in StoreAppends :
          /\ Within(dirname(a[1])) /\ Lines < MaxStoreLines
          /\ AppendTo(a[1], a[2])

Spec == Init /\ [][Next]_vars

-----------------------------------------------------------------------------
(* The append log and the directory memo, from an empty base directory.     *)
(* "f" is appended to as a file and asked for as the directory of a Meta;   *)
(* "k1" is the directory of entities and of the log "k1/log".               *)

MaxLogLines == 2    \* the log's driver appends while the tree holds fewer lines

F == <<"f">>
K1Log == <<"k1", "log">>

LogMetas == {Entity(MetaSchema, k, "", "v1") : k \in {F, K1}}
LogVulnerabilities == {Entity(VulnerabilityListSchema, K1, "p", "v1")}
LogVersions == {Entity(VersionListSchema, K1, "", "v1")}
LogContents ==
    {<<"a">>, <<"\n", "a">>, <<"a", "\n", "\n">>, <<"a", "\n", "b">>, <<>>}

LogNext ==
    \/ \E meta \in LogMetas : Within(meta.key) /\ WriteMeta(meta)
    \/ \E vlist \in LogVulnerabilities :
          Within(vlist.key) /\ WriteVulnerabilities(vlist)
    \/ \E vlist \in LogVersions : Within(vlist.key) /\ WriteVersions(vlist)
    \/ \E relative \in {F, K1Log}, content \in LogContents :
          /\ Within(dirname(relative)) /\ Lines < MaxLogLines
          /\ AppendTo(relative, content)
    \/ \E relative \in {F, K1Log, K1} : ReadLines(relative)

SpecLog == Init /\ [][LogNext]_vars

-----------------------------------------------------------------------------
(* The info tab.  A page is [titles, rows]: the text nodes of the elements *)
(* span class="title", and the table rows <tr><td><span>label</span></td>  *)
(* <td>...</td></tr> in document order, a row being [label, td2] and its   *)
(* second cell [text, children], each child [tag, tail].  A text or a tail *)
(* is None or a Str; in a date each field counts as one character.        *)

Cell(text, children) == [text |-> text, children |-> children]
Child(tag, tail) == [tag |-> tag, tail |-> tail]

RECURSIVE tails(_)
tails(children) ==
    IF children = <<>> THEN <<>>
    ELSE (IF Head(children).tail = None THEN <<>> ELSE <<Head(children).tail.s>>)
             \o tails(Tail(children))

\* td/text(): the text nodes that are children of the cell, in document order.
text_nodes(cell) ==
    (IF cell.text = None THEN <<>> ELSE <<cell.text.s>>) \o tails(cell.children)

RECURSIVE select_td2(_, _)
select_td2(rows, label) ==
    IF rows = <<>> THEN <<>>
    ELSE (IF Head(rows).label = label THEN <<Head(rows).td2>> ELSE <<>>)
             \o select_td2(Tail(rows), label)

\* xpath('//span[text() = "<label>"]/../../td[2]')
xpath_td2(label) == select_td2(html_tree.rows, label)

RECURSIVE all_text_nodes(_)
all_text_nodes(cells) ==
    IF cells = <<>> THEN <<>>
    ELSE text_nodes(Head(cells)) \o all_text_nodes(Tail(cells))

\* xpath('//span[text() = "<label>"]/../../td[2]/text()')
xpath_td2_text(label) == all_text_nodes(xpath_td2(label))

NoTree == html_tree = None

\* InfoTabParser._parse_element
parse_element(element_name) ==
    IF NoTree THEN Raised("AttributeError")
    ELSE LET element_value == xpath_td2_text(element_name)
         IN IF element_value = <<>> THEN Raised("IndexError")
            ELSE LET value == strip(element_value[1], Whitespace)
                 IN IF Len(value) = 0 THEN Returned(None) ELSE Returned(Str(value))

\* InfoTabParser.get_title
get_title ==
    IF NoTree THEN Raised("AttributeError")
    ELSE LET title == html_tree.titles
         IN IF title = <<>> THEN Raised("IndexError") ELSE Returned(Str(title[1]))

\* The loop of get_cve_id over the children of the cell.
RECURSIVE cve_loop(_, _)
cve_loop(children, cve_ids) ==
    IF children = <<>> THEN cve_ids
    ELSE LET cve == Head(children).tail
         IN IF cve # None /\ Len(strip(cve.s, Whitespace)) # 0
            THEN cve_loop(Tail(children), cve_ids \cup {strip(cve.s, Whitespace)})
            ELSE cve_loop(Tail(children), cve_ids)

\* InfoTabParser.get_cve_id up to list(cve_ids): the set, or what was raised or
\* returned before it.
cve_ids_of ==
    IF NoTree THEN Raised("AttributeError")
    ELSE LET td_element == xpath_td2("CVE:")
         IN IF td_element = <<>> THEN Raised("IndexError")
            ELSE IF td_element[1].text = None THEN Raised("AttributeError")
            ELSE LET cve == strip(td_element[1].text.s, Whitespace)
                 IN IF Len(cve) = 0 THEN Returned(List(<<>>))
                    ELSE [tag |-> "set",
                          ids |-> cve_loop(td_element[1].children, {cve})]

\* securityfocus_date_format = "%b %d %Y %I:%M%p"
securityfocus_date_format == <<"%b", " ", "%d", " ", "%Y", " ", "%I", ":", "%M", "%p">>

\* The fields each directive of the format accepts, among the fields in use.
Directive == [d \in {"%b", "%d", "%Y", "%I", "%M", "%p"} |->
                 CASE d = "%b" -> {"Sep", "Aug"}
                   [] d = "%d" -> {"07", "20"}
                   [] d = "%Y" -> {"2016", "2009"}
                   [] d = "%I" -> {"12", "08"}
                   [] d = "%M" -> {"00"}
                   [] OTHER -> {"AM", "PM"}]

\* The regular expression strptime builds from a format: a directive matches one
\* field, a space any run of whitespace, any other character itself; the whole
\* string must be consumed.
RECURSIVE format_matches(_, _)
format_matches(string, format) ==
    IF format = <<>> THEN string = <<>>
    ELSE IF string = <<>> THEN FALSE
    ELSE IF Head(format) \in DOMAIN Directive
         THEN /\ Head(string) \in Directive[Head(format)]
              /\ format_matches(Tail(string), Tail(format))
    ELSE IF Head(format) = " "
         THEN /\ Head(string) \in Whitespace
              /\ format_matches(lstrip(string, Whitespace), Tail(format))
    ELSE Head(string) = Head(format) /\ format_matches(Tail(string), Tail(format))

\* datetime.strptime(string_date, securityfocus_date_format)
strptime(string_date) ==
    IF string_date = None THEN Raised("TypeError")
    ELSE IF ~format_matches(string_date.s, securityfocus_date_format)
         THEN Raised("ValueError")
    ELSE Returned([kind |-> "datetime",
                   fields |-> SelectSeq(string_date.s,
                                        LAMBDA c : c \notin Whitespace)])

\* get_publication_date / get_last_update_date
get_date(element_name) ==
    LET string_date == parse_element(element_name)
    IN IF string_date.tag = "raise" THEN string_date
       ELSE strptime(string_date.val)

\* The comprehension of _get_version_list.
RECURSIVE stripped_non_empty(_)
stripped_non_empty(versions_list) ==
    IF versions_list = <<>> THEN <<>>
    ELSE (IF Len(strip(Head(versions_list), Whitespace)) > 0
          THEN <<Str(strip(Head(versions_list), Whitespace))>> ELSE <<>>)
             \o stripped_non_empty(Tail(versions_list))

\* InfoTabParser._get_version_list
get_version_list(get_vulnerable_versions) ==
    IF NoTree THEN Raised("AttributeError")
    ELSE LET versions_list ==
                 IF get_vulnerable_versions THEN xpath_td2_text("Vulnerable:")
                 ELSE xpath_td2_text("Not Vulnerable:")
         IN Returned(List(stripped_non_empty(versions_list)))

\* A getter of a parser: it reads the page and changes nothing.
Getter(name, outcome) ==
    /\ call' = [op |-> name]
    /\ ret' = outcome
    /\ UNCHANGED <<storage_vars, parser_vars>>

\* set_html_page(filename): the page parsed from the file.
SetHtmlPage(page) ==
    /\ call' = [op |-> "set_html_page"]
    /\ html_tree' = page
    /\ ret' = Returned(None)
    /\ UNCHANGED <<storage_vars, url>>

GetTitle == Getter("get_title", get_title)
GetBugtraqId == Getter("get_bugtraq_id", parse_element("Bugtraq ID:"))
GetVulnClass == Getter("get_vuln_class", parse_element("Class:"))
IsVulnRemote == Getter("is_vuln_remote", parse_element("Remote:"))
IsVulnLocal == Getter("is_vuln_local", parse_element("Local:"))
GetCredit == Getter("get_credit", parse_element("Credit:"))
GetPublicationDate == Getter("get_publication_date", get_date("Published:"))
GetLastUpdateDate == Getter("get_last_update_date", get_date("Updated:"))
GetVulnerableVersions == Getter("get_vulnerable_versions", get_version_list(TRUE))
GetNotVulnerableVersions ==
    Getter("get_not_vulnerable_versions", get_version_list(FALSE))

\* InfoTabParser.get_cve_id: list(cve_ids) gives the set in an arbitrary order.
GetCveId ==
    LET r == cve_ids_of
    IN IF r.tag = "set"
       THEN \E order \in Perms(r.ids) :
               Getter("get_cve_id",
                      Returned(List([i \in 1..Len(order) |-> Str(order[i])])))
       ELSE Getter("get_cve_id", r)

MaxRows == 1        \* the rows of an info page

Labels ==
    {"Bugtraq ID:", "Class:", "CVE:", "Remote:", "Local:", "Published:",
     "Updated:", "Credit:", "Vulnerable:", "Not Vulnerable:"}

Blanks == <<" ", "\n">>
DateText == <<" ", "Sep", " ", "07", " ", "2016", " ", "12", ":", "00", "AM", "\n">>
OtherDateText == <<"2016", "-", "09", "-", "07">>

InfoCells ==
    {Cell(None, <<>>),
     Cell(Str(Blanks), <<>>),
     Cell(Str(<<" ", "a", " ", "b", "\n">>), <<>>),
     Cell(Str(DateText), <<>>),
     Cell(Str(OtherDateText), <<>>),
     Cell(Str(Blanks), <<Child("br", Str(<<" ", "b", " ">>))>>),
     Cell(Str(<<"a">>),
          <<Child("br", Str(<<" ", "a", "\n">>)), Child("a", Str(<<"b">>)),
            Child("br", None)>>)}

InfoRows == [label : Labels, td2 : InfoCells]
InfoPages ==
    [titles : {<<>>, <<<<"t">>>>},
     rows : UNION {[1..n -> InfoRows] : n \in 0..MaxRows}]

InfoNext ==
    \/ \E page \in InfoPages : NoTree /\ SetHtmlPage(page)
    \/ GetTitle
    \/ GetBugtraqId
    \/ GetVulnClass
    \/ GetCveId
    \/ IsVulnRemote
    \/ IsVulnLocal
    \/ GetPublicationDate
    \/ GetLastUpdateDate
    \/ GetCredit
    \/ GetVulnerableVersions
    \/ GetNotVulnerableVersions

SpecInfo == Init /\ [][InfoNext]_vars

-----------------------------------------------------------------------------
(* The discussion, exploit and solution tabs.  A page is [vulnerability]:  *)
(* the elements div id="vulnerability" in document order, each the         *)
(* sequence of its children [tag, tail].                                   *)

\* "phrase in text"
Contains(text, phrase) ==
    \E i \in 0..(Len(text) - Len(phrase)) :
        SubSeq(text, i + 1, i + Len(phrase)) = phrase

RECURSIVE sub_pairs(_)
sub_pairs(string) ==
    IF Len(string) >= 2 /\ string[1] \in Whitespace /\ string[2] \in Whitespace
    THEN <<" ">> \o sub_pairs(Tail(Tail(string)))
    ELSE IF string = <<>> THEN <<>>
    ELSE <<Head(string)>> \o sub_pairs(Tail(string))

\* re.sub('\s\s+', ' ', string): each maximal run of two or more whitespace
\* characters becomes one space; a whitespace character alone is kept.  The
\* characters kept are those that are not whitespace and the first of each run.
sub_runs(string) ==
    LET starts == SelectSeq([i \in 1..Len(string) |-> i],
                            LAMBDA i : \/ string[i] \notin Whitespace
                                       \/ i = 1
                                       \/ string[i - 1] \notin Whitespace)
    IN [k \in 1..Len(starts) |->
           IF /\ string[starts[k]] \in Whitespace
              /\ starts[k] < Len(string)
              /\ string[starts[k] + 1] \in Whitespace
           THEN " " ELSE string[starts[k]]]

\* strip_whitespaces
strip_whitespaces(string) == strip(sub_runs(string), Whitespace)

ExploitPhrase ==
    <<"C", "u", "r", "r", "e", "n", "t", "l", "y", ",", " ", "w", "e", " ",
      "a", "r", "e", " ", "n", "o", "t", " ", "a", "w", "a", "r", "e", " ",
      "o", "f", " ", "a", "n", "y", " ", "w", "o", "r", "k", "i", "n", "g",
      " ", "e", "x", "p", "l", "o", "i", "t", "s", ".">>
SolutionPhrase ==
    <<"C", "u", "r", "r", "e", "n", "t", "l", "y", " ", "w", "e", " ", "a",
      "r", "e", " ", "n", "o", "t", " ", "a", "w", "a", "r", "e", " ", "o",
      "f", " ", "a", "n", "y">>

\* xpath('//div[@id="vulnerability"]')
xpath_vulnerability == html_tree.vulnerability

\* The loop of get_discussion.
RECURSIVE discussion_loop(_, _)
discussion_loop(children, discussion_text) ==
    IF children = <<>> THEN Returned(Str(strip_whitespaces(discussion_text)))
    ELSE IF Head(children).tag = "br" /\ Head(children).tail # None
         THEN discussion_loop(Tail(children),
                              discussion_text \o Head(children).tail.s)
    ELSE discussion_loop(Tail(children), discussion_text)

\* DiscussionTabParser.get_discussion
get_discussion ==
    IF NoTree THEN Raised("AttributeError")
    ELSE IF xpath_vulnerability = <<>> THEN Raised("IndexError")
    ELSE discussion_loop(xpath_vulnerability[1], <<>>)

RECURSIVE exploit_loop_any_child(_, _)
exploit_loop_any_child(children, exploit_description) ==
    IF children = <<>> THEN Returned(Str(strip_whitespaces(exploit_description)))
    ELSE IF Head(children).tail # None
         THEN IF Contains(Head(children).tail.s, ExploitPhrase) THEN Returned(None)
              ELSE exploit_loop_any_child(Tail(children),
                                          exploit_description \o Head(children).tail.s)
    ELSE exploit_loop_any_child(Tail(children), exploit_description)

\* The loop of get_exploit_description.
RECURSIVE exploit_loop(_, _)
exploit_loop(children, exploit_description) ==
    IF children = <<>> THEN Returned(Str(strip_whitespaces(exploit_description)))
    ELSE IF Head(children).tag = "br" /\ Head(children).tail # None
         THEN IF Contains(Head(children).tail.s, ExploitPhrase) THEN Returned(None)
              ELSE exploit_loop(Tail(children),
                                exploit_description \o Head(children).tail.s)
    ELSE exploit_loop(Tail(children), exploit_description)

\* ExploitTabParser.get_exploit_description
get_exploit_description ==
    IF NoTree THEN Raised("AttributeError")
    ELSE IF xpath_vulnerability = <<>> THEN Raised("IndexError")
    ELSE exploit_loop(xpath_vulnerability[1], <<>>)

\* The loop of get_solution.
RECURSIVE solution_loop(_, _)
solution_loop(children, solution_description) ==
    IF children = <<>> THEN Returned(Str(strip_whitespaces(solution_description)))
    ELSE IF Head(children).tag = "br" /\ Head(children).tail # None
         THEN IF Contains(Head(children).tail.s, SolutionPhrase) THEN Returned(None)
              ELSE solution_loop(Tail(children),
                                 solution_description \o Head(children).tail.s)
    ELSE solution_loop(Tail(children), solution_description)

\* SolutionTabParser.get_solution
get_solution ==
    IF NoTree THEN Raised("AttributeError")
    ELSE IF xpath_vulnerability = <<>> THEN Raised("IndexError")
    ELSE solution_loop(xpath_vulnerability[1], <<>>)

GetDiscussion == Getter("get_discussion", get_discussion)
GetExploitDescription == Getter("get_exploit_description", get_exploit_description)
GetSolution == Getter("get_solution", get_solution)

MaxChildren == 2    \* the children of the vulnerability container

\* A phrase cut in two trailing texts.
FirstHalf(phrase) == SubSeq(phrase, 1, Len(phrase) \div 2)
SecondHalf(phrase) == SubSeq(phrase, Len(phrase) \div 2 + 1, Len(phrase))

TextTails ==
    {<<"a">>,
     <<" ", "a", " ", "\n", "b", "\n", "c", "\t">>,
     ExploitPhrase,
     <<"a", " ">> \o ExploitPhrase \o <<" ", "b">>,
     SubSeq(ExploitPhrase, 1, Len(ExploitPhrase) - 1),
     FirstHalf(ExploitPhrase),
     SecondHalf(ExploitPhrase),
     <<"a", " ">> \o SolutionPhrase \o <<" ", "b", ".">>,
     <<"c">> \o Tail(SolutionPhrase)}

TextChildren ==
    [tag : {"br", "p"}, tail : {None} \cup {Str(t) : t \in TextTails}]
TextPages ==
    [vulnerability :
        {<<>>} \cup {<<children>> :
                        children \in UNION {[1..n -> TextChildren] :
                                               n \in 0..MaxChildren}}]

TextNext ==
    \/ \E page \in TextPages : NoTree /\ SetHtmlPage(page)
    \/ GetDiscussion
    \/ GetExploitDescription
    \/ GetSolution

SpecText == Init /\ [][TextNext]_vars

-----------------------------------------------------------------------------
(* strip_whitespaces on its own: called on a string, then on what it       *)
(* returned.                                                               *)

StripWhitespaces(string) ==
    /\ call' = [op |-> "strip_whitespaces", string |-> string]
    /\ ret' = Returned(Str(strip_whitespaces(string)))
    /\ UNCHANGED <<storage_vars, parser_vars>>

MaxString == 6      \* the length of a string given to strip_whitespaces

Characters == {"a"} \cup Whitespace
Strings == UNION {[1..n -> Characters] : n \in 0..MaxString}

NormNext ==
    \/ \E string \in Strings : call = NoCall /\ StripWhitespaces(string)
    \/ call.op = "strip_whitespaces" /\ StripWhitespaces(ret.val.s)

SpecNorm == Init /\ [][NormNext]_vars

-----------------------------------------------------------------------------
(* URLs.  A URL is a sequence in which a scheme with its colon ("http:"),  *)
(* the two slashes before a network location, a host, a slash and a path   *)
(* segment each count as one character.                                    *)

Schemes == {"http:", "mailto:"}
uses_relative == {"", "http:"}
uses_netloc == {"", "http:"}

\* The characters of string up to the first slash.
RECURSIVE until_slash(_)
until_slash(string) ==
    IF string = <<>> \/ Head(string) = "/" THEN <<>>
    ELSE <<Head(string)>> \o until_slash(Tail(string))

\* urllib.parse.urlparse(url, scheme): the scheme, network location and path.
urlparse(string, scheme) ==
    LET has_scheme == string # <<>> /\ Head(string) \in Schemes
        rest == IF has_scheme THEN Tail(string) ELSE string
        has_netloc == rest # <<>> /\ Head(rest) = "//"
        netloc == IF has_netloc THEN until_slash(Tail(rest)) ELSE <<>>
    IN [scheme |-> IF has_scheme THEN Head(string) ELSE scheme,
        netloc |-> netloc,
        path |-> IF has_netloc
                 THEN SubSeq(rest, 2 + Len(netloc), Len(rest)) ELSE rest]

\* urllib.parse.urlunparse
urlunparse(scheme, netloc, path_) ==
    LET with_netloc ==
            IF \/ netloc # <<>>
               \/ (scheme # "" /\ scheme \in uses_netloc
                   /\ ~(path_ # <<>> /\ Head(path_) = "//"))
            THEN <<"//">> \o netloc
                     \o (IF path_ # <<>> /\ Head(path_) # "/" THEN <<"/">> ELSE <<>>)
                     \o path_
            ELSE path_
    IN IF scheme # "" THEN <<scheme>> \o with_netloc ELSE with_netloc

\* path.split('/'): the segments between the slashes, "" for an empty one.
RECURSIVE split(_)
split(path_) ==
    IF path_ = <<>> THEN <<"">>
    ELSE IF Head(path_) = "/" THEN <<"">> \o split(Tail(path_))
    ELSE IF Len(path_) = 1 THEN <<Head(path_)>>
    ELSE <<Head(path_)>> \o split(Tail(Tail(path_)))

\* '/'.join(segments)
RECURSIVE join(_)
join(segments) ==
    IF segments = <<>> THEN <<>>
    ELSE (IF Head(segments) = "" THEN <<>> ELSE <<Head(segments)>>)
             \o (IF Len(segments) > 1 THEN <<"/">> ELSE <<>>)
             \o join(Tail(segments))

\* The loop of urljoin over the segments: ".." removes the last segment
\* resolved so far, "." is skipped.
RECURSIVE resolve_segments(_, _)
resolve_segments(segments, resolved_path) ==
    IF segments = <<>> THEN resolved_path
    ELSE IF Head(segments) = ".."
         THEN resolve_segments(Tail(segments),
                               IF resolved_path = <<>> THEN <<>>
                               ELSE SubSeq(resolved_path, 1, Len(resolved_path) - 1))
    ELSE IF Head(segments) = "." THEN resolve_segments(Tail(segments), resolved_path)
    ELSE resolve_segments(Tail(segments), Append(resolved_path, Head(segments)))

\* segments[1:-1] = filter(None, segments[1:-1])
filter_inner(segments) ==
    IF Len(segments) < 3 THEN segments
    ELSE <<Head(segments)>>
             \o SelectSeq(SubSeq(segments, 2, Len(segments) - 1), LAMBDA g : g # "")
             \o <<segments[Len(segments)]>>

\* urllib.parse.urljoin(base, string)
urljoin(base, string) ==
    IF base = None \/ base.s = <<>> THEN string
    ELSE IF string = <<>> THEN base.s
    ELSE LET b == urlparse(base.s, "")
             u == urlparse(string, b.scheme)
             base_parts == IF split(b.path)[Len(split(b.path))] # ""
                           THEN SubSeq(split(b.path), 1, Len(split(b.path)) - 1)
                           ELSE split(b.path)
             segments == IF Head(u.path) = "/" THEN split(u.path)
                         ELSE filter_inner(base_parts \o split(u.path))
             resolved_path ==
                 resolve_segments(segments, <<>>)
                     \o (IF segments[Len(segments)] \in {".", ".."}
                         THEN <<"">> ELSE <<>>)
         IN IF u.scheme # b.scheme \/ u.scheme \notin uses_relative THEN string
            ELSE IF u.scheme \in uses_netloc /\ u.netloc # <<>>
                 THEN urlunparse(u.scheme, u.netloc, u.path)
            ELSE IF u.path = <<>> THEN urlunparse(u.scheme, b.netloc, b.path)
            ELSE urlunparse(u.scheme, b.netloc,
                            IF join(resolved_path) = <<>> THEN <<"/">>
                            ELSE join(resolved_path))

-----------------------------------------------------------------------------
(* The references tab.  A page is [uls]: the ul children of the element    *)
(* div id="vulnerability" in document order, each the sequence of its      *)
(* children [tag, children], and each child of these an element            *)
(* [tag, text, tail, href] whose text, tail and href are None or a Str.    *)

Element(tag, text, tail, href) ==
    [tag |-> tag, text |-> text, tail |-> tail, href |-> href]

\* ReferenceTabParser._is_relative_url
is_relative_url(string) == Len(urlparse(string, "").netloc) = 0

reference_url_joined(string) == urljoin(url, string)

\* The url of a reference: the href, joined to the base URL if it is relative
\* and a base URL was given.
reference_url(string) ==
    IF is_relative_url(string) /\ url # None THEN urljoin(url, string) ELSE string

\* li.xpath('a/@href')
xpath_a_href(li) ==
    SelectSeq(li.children, LAMBDA c : c.tag = "a" /\ c.href # None)

\* The body of the loop of get_references for one child of the list.
reference_of(li) ==
    IF li.children = <<>> THEN Raised("IndexError")
    ELSE LET a_tag == li.children[1]
         IN IF a_tag.text = None \/ a_tag.tail = None THEN Raised("TypeError")
            ELSE IF xpath_a_href(li) = <<>> THEN Raised("IndexError")
            ELSE Returned([description |-> Str(a_tag.text.s \o a_tag.tail.s),
                           url |-> Str(reference_url(xpath_a_href(li)[1].href.s))])

\* The loop of get_references.
RECURSIVE references_loop(_, _)
references_loop(lis, references_list) ==
    IF lis = <<>> THEN Returned(List(references_list))
    ELSE LET reference == reference_of(Head(lis))
         IN IF reference.tag = "raise" THEN reference
            ELSE references_loop(Tail(lis), Append(references_list, reference.val))

\* ReferenceTabParser.get_references
get_references ==
    IF NoTree THEN Raised("AttributeError")
    ELSE IF html_tree.uls = <<>> THEN Raised("IndexError")
    ELSE references_loop(html_tree.uls[1], <<>>)

GetReferences == Getter("get_references", get_references)

MaxItems == 2       \* the children of a list of references

BaseUrls ==
    {None,
     Str(<<"http:", "//", "example.com", "/", "advisory", "/", "1">>),
     Str(<<"http:", "//", "example.com">>),
     Str(<<>>)}

Hrefs ==
    {<<"..", "/", "other">>,
     <<"/", "abs">>,
     <<"http:", "//", "other.org", "/", "x">>,
     <<"//", "other.org", "/", "x">>,
     <<"mailto:", "x">>,
     <<"http:", "rel">>,
     <<>>}

AnchorText == Str(<<"t">>)
AnchorTail == Str(<<" ", "(", "s", ")">>)
Anchor(href) == Element("a", AnchorText, AnchorTail, Str(href))

RefItems ==
    {[tag |-> "li", children |-> <<Anchor(h)>>] : h \in Hrefs}
    \cup {[tag |-> "li", children |-> <<>>],
          [tag |-> "li",
           children |-> <<Element("a", AnchorText, None, Str(<<"/", "abs">>))>>],
          [tag |-> "li",
           children |-> <<Element("a", None, AnchorTail, Str(<<"/", "abs">>))>>],
          [tag |-> "li", children |-> <<Element("a", AnchorText, AnchorTail, None)>>],
          [tag |-> "li",
           children |-> <<Element("b", Str(<<"u">>), Str(<<"v">>), None),
                          Anchor(<<"/", "abs">>)>>],
          [tag |-> "p", children |-> <<Anchor(<<"/", "abs">>)>>]}

RefLists == UNION {[1..n -> RefItems] : n \in 0..MaxItems}
OtherList == <<[tag |-> "li", children |-> <<Anchor(<<"/", "abs">>)>>]>>

RefPages ==
    [uls : {<<>>} \cup {<<ul>> : ul \in RefLists}
                  \cup {<<ul, OtherList>> : ul \in RefLists}]

\* A parser constructed with any of the base URLs.
RefInit == StorageInit /\ html_tree = None /\ url \in BaseUrls

RefNext ==
    \/ \E page \in RefPages : NoTree /\ SetHtmlPage(page)
    \/ GetReferences

SpecRef == RefInit /\ [][RefNext]_vars

-----------------------------------------------------------------------------
(* Claims about the store, checked under Spec *)

ReadOps == {"read_meta", "read_vulnerabilities", "read_versions"}

\* What the read_* of an entity's kind returns for <<key, kind, producer>>.
ReadBack(key, kind, producer) ==
    CASE kind = MetaSchema -> read_meta(key)
      [] kind = VersionListSchema -> read_versions(key)
      [] OTHER -> read_vulnerabilities(key, producer)

\* The <<key, kind, producer>> a read_* call asks for.
Asked(c) ==
    CASE c.op = "read_meta" -> <<c.key, MetaSchema, "">>
      [] c.op = "read_versions" -> <<c.key, VersionListSchema, "">>
      [] OTHER -> <<c.key, VulnerabilityListSchema, c.producer>>

Folded(t) == <<t[1], t[2], lower(t[3])>>

\* C1, as stated: after any sequence of write_* calls, each read_* returns the
\* value of the most recent write to the same key, kind and producer, whatever
\* was written to another key, kind or producer in between.
C1_LastWriteWins ==
    /\ \A t \in DOMAIN written : ReadBack(t[1], t[2], t[3]) = Returned(written[t])
    /\ (call.op \in ReadOps /\ Asked(call) \in DOMAIN written)
          => ret = Returned(written[Asked(call)])

\* C1, amended: each read_* returns the value of the most recent write to the
\* same key and kind and to the same producer up to the case of its letters: two
\* producers that differ only in case share one file, and the later write to
\* either is what both read back.
C1_LastWriteWinsUpToCase ==
    /\ \A f \in DOMAIN written_folded :
          \A producer \in Producers \cup {""} :
              lower(producer) = f[3]
                  => ReadBack(f[1], f[2], producer) = Returned(written_folded[f])
    /\ (call.op \in ReadOps /\ Folded(Asked(call)) \in DOMAIN written_folded)
          => ret = Returned(written_folded[Folded(Asked(call))])

\* C1's case: "p" was written, then "P", and reading "p" returned the list of "P".
C1_Witness ==
    /\ call.op = "read_vulnerabilities"
    /\ call.producer = "p"
    /\ <<call.key, VulnerabilityListSchema, "p">> \in DOMAIN written
    /\ ret.tag = "return"
    /\ ret.val # None
    /\ ret.val.producer = "P"

\* C2: list_vulnerabilities(key) yields exactly one decoded list per file of
\* key's directory whose name matches vuln-<word>.json and that is no directory,
\* each the content of that very file, and nothing for any other name.  Stated
\* for a directory whose matching files all hold a valid list.
C2_ListsEachMatchingFile ==
    (/\ call.op = "list_vulnerabilities"
     /\ path(<<call.key>>) \in dirs
     /\ \A n \in Matching(call.key) :
           LET r == read(VulnerabilityListSchema, <<call.key, <<n>>>>)
           IN r.tag = "return" /\ r.val # None)
    => /\ ret.exc = "none"
       /\ \E order \in Perms(Matching(call.key)) :
             ret.yielded =
                 [i \in 1..Len(order) |->
                     read(VulnerabilityListSchema, <<call.key, <<order[i]>>>>).val]

\* The file a read_* call opens and the schema it loads it with.
ReadFile(c) ==
    path(<<c.key,
           <<CASE c.op = "read_meta" -> "META.json"
               [] c.op = "read_versions" -> "versions.json"
               [] OTHER -> read_vulnerabilities_name(c.producer)>>>>)
ReadSchema(c) == Asked(c)[2]

Malformed(c) == ~JsonDecodes(files[ReadFile(c)])
Invalid(c) ==
    /\ JsonDecodes(files[ReadFile(c)])
    /\ loads(ReadSchema(c), files[ReadFile(c)]).val.errors # {}

\* C5: a read_* of a file whose text is malformed JSON returns None without
\* raising; a read_* of a file whose text decodes but fails the schema raises;
\* in neither case does it return a decoded value.
C5_ReadFailurePolicy ==
    (call.op \in ReadOps /\ ReadFile(call) \in DOMAIN files)
    => /\ Malformed(call) => ret = Returned(None)
       /\ Invalid(call) => ret.tag = "raise"
       /\ (Malformed(call) \/ Invalid(call))
             => ~(ret.tag = "return" /\ ret.val # None)

\* C5's cases: a Meta read from a document of another kind raised ...
C5_Witness ==
    /\ call.op = "read_meta"
    /\ ReadFile(call) \in DOMAIN files
    /\ Invalid(call)
    /\ ret = Raised("Exception")

\* ... and a Meta read from malformed text returned None.
C5_MalformedReached ==
    /\ call.op = "read_meta"
    /\ ReadFile(call) \in DOMAIN files
    /\ Malformed(call)
    /\ ret = Returned(None)

-----------------------------------------------------------------------------
(* Claims about the directory memo and the append log, checked under SpecLog *)

WriteOps == {"write_meta", "write_vulnerabilities", "write_versions"}

\* The relative directory a write_* or append call prepares.
Prepared(c) == IF c.op = "append" THEN dirname(c.relative) ELSE c.key

IssuedIn(log, relative) ==
    IF relative \in DOMAIN log THEN log[relative].issued ELSE 0

\* C3, as stated: over any sequence of write_* and append calls the
\* directory-creation call is issued at most once for each relative directory.
C3_IssuedAtMostOnce ==
    \A relative \in DOMAIN makedirs_log : makedirs_log[relative].issued <= 1

C3_Memo ==
    /\ known \subseteq DOMAIN makedirs_log
    /\ known \subseteq dirs
    /\ \A relative \in DOMAIN makedirs_log :
          /\ makedirs_log[relative].completed <= 1
          /\ makedirs_log[relative].completed <= makedirs_log[relative].issued
          /\ relative \in known <=> makedirs_log[relative].completed = 1

C3_Step ==
    /\ known \subseteq known'
    /\ \A relative \in known :
          IssuedIn(makedirs_log', relative) = IssuedIn(makedirs_log, relative)
    /\ \A relative \in DOMAIN makedirs_log' :
          IssuedIn(makedirs_log', relative) # IssuedIn(makedirs_log, relative)
              => /\ IssuedIn(makedirs_log', relative)
                       = IssuedIn(makedirs_log, relative) + 1
                 /\ call'.op \in WriteOps \cup {"append"}
                 /\ Prepared(call') = relative
    /\ (call'.op \in WriteOps \cup {"append"} /\ Prepared(call') \notin known)
          => IssuedIn(makedirs_log', Prepared(call'))
                 = IssuedIn(makedirs_log, Prepared(call')) + 1

\* C3, amended: the directory-creation call completes at most once for each
\* relative directory; it is issued by the first write or append that targets
\* the directory and, when it raised, again by each later one until it
\* completes; an operation that targets a known directory issues none; the set
\* of known directories only grows and holds exactly the directories whose
\* creation call has completed.
C3_MemoizedCreation == [](C3_Memo) /\ [][C3_Step]_vars

\* C3's case: two appends to the new "k1/log" and one creation call for "k1".
C3_Witness ==
    /\ call.op = "append"
    /\ call.relative = K1Log
    /\ ret.tag = "return"
    /\ Len(lines_of(files[K1Log])) >= 2
    /\ makedirs_log[K1] = [issued |-> 1, completed |-> 1]

AppendedOk == call'.op = "append" /\ ret'.tag = "return"
EndsLine(text) == text = <<>> \/ text[Len(text)] = "\n"

\* C4, as stated: an append leaves the previous content followed by the content
\* with only its trailing newlines removed and one newline added, so that
\* read_lines yields the appended contents in call order.
C4_AppendsContentLessTrailingNewlines ==
    [][AppendedOk =>
          LET old == Content(call'.relative)
              line == rstrip(call'.content, {"\n"})
          IN /\ files'[call'.relative] = old \o line \o <<"\n">>
             /\ EndsLine(old) =>
                   lines_of(files'[call'.relative]) = lines_of(old) \o <<line>>]_vars

C4_Step ==
    /\ AppendedOk =>
          LET old == Content(call'.relative)
              line == strip(call'.content, {"\n"})
          IN /\ files'[call'.relative] = old \o line \o <<"\n">>
             /\ EndsLine(old) =>
                   lines_of(files'[call'.relative])
                       = lines_of(old) \o lines_of(line \o <<"\n">>)
             /\ (\A i \in 1..Len(line) : line[i] # "\n")
                   => lines_of(line \o <<"\n">>) = <<line>>
    /\ (call'.op = "read_lines" /\ call'.relative \in DOMAIN files)
          => ret' = Generated(lines_of(files[call'.relative]), "none")

\* C4, amended: an append leaves the previous content, never truncated or
\* rewritten, followed by the content with its leading and its trailing
\* newlines removed and one newline added; read_lines yields the lines of the
\* file, which for a file built by appends are the lines of each such content in
\* call order: the content itself when it has no newline inside, one line per
\* part when it has.
C4_AppendsStrippedLine == [][C4_Step]_vars

\* C4's case: a content that starts with a newline appended as a second line.
C4_Witness ==
    /\ call.op = "append"
    /\ ret.tag = "return"
    /\ call.content # <<>>
    /\ Head(call.content) = "\n"
    /\ Len(lines_of(files[call.relative])) >= 2


-----------------------------------------------------------------------------
(* Claims about the info tab, checked under SpecInfo *)

LabelOf ==
    [op \in {"get_bugtraq_id", "get_vuln_class", "get_cve_id", "is_vuln_remote",
             "is_vuln_local", "get_publication_date", "get_last_update_date",
             "get_credit", "get_vulnerable_versions",
             "get_not_vulnerable_versions"} |->
        CASE op = "get_bugtraq_id" -> "Bugtraq ID:"
          [] op = "get_vuln_class" -> "Class:"
          [] op = "get_cve_id" -> "CVE:"
          [] op = "is_vuln_remote" -> "Remote:"
          [] op = "is_vuln_local" -> "Local:"
          [] op = "get_publication_date" -> "Published:"
          [] op = "get_last_update_date" -> "Updated:"
          [] op = "get_credit" -> "Credit:"
          [] op = "get_vulnerable_versions" -> "Vulnerable:"
          [] OTHER -> "Not Vulnerable:"]

ListGetters == {"get_cve_id", "get_vulnerable_versions", "get_not_vulnerable_versions"}
ScalarGetters ==
    {"get_bugtraq_id", "get_vuln_class", "is_vuln_remote", "is_vuln_local",
     "get_credit"}
DateGetters == {"get_publication_date", "get_last_update_date"}

\* A getter of a labeled field has been called on a loaded page.
Looked(ops) == ~NoTree /\ call.op \in ops

RowMissing(label) == xpath_td2(label) = <<>>

\* Every text of the cell is empty once trimmed.
Blank(cell) ==
    \A i \in 1..Len(text_nodes(cell)) :
        strip(text_nodes(cell)[i], Whitespace) = <<>>

\* C6: on a loaded page, a getter of an optional field whose labeled row is
\* missing, or whose value cell is blank, returns None, or the empty list if
\* the field is list-valued; it does not raise.
C6_AbsenceIsNotRaised ==
    (/\ Looked(DOMAIN LabelOf)
     /\ \/ RowMissing(LabelOf[call.op])
        \/ Blank(xpath_td2(LabelOf[call.op])[1]))
    => ret = Returned(IF call.op \in ListGetters THEN List(<<>>) ELSE None)

\* C7: a getter of a label-driven scalar field returns None when the row
\* exists and its value cell is empty once trimmed; the string it returns is
\* never empty and has no whitespace at either end.
C7_BlankScalarIsNone ==
    Looked(ScalarGetters) =>
        /\ (/\ ~RowMissing(LabelOf[call.op])
            /\ Blank(xpath_td2(LabelOf[call.op])[1]))
           => ret = Returned(None)
        /\ (ret.tag = "return" /\ ret.val # None)
           => /\ ret.val.kind = "str"
              /\ ret.val.s # <<>>
              /\ Head(ret.val.s) \notin Whitespace
              /\ ret.val.s[Len(ret.val.s)] \notin Whitespace

\* The non-empty trimmed fragments among the primary text of the cell and the
\* trailing text of each of its line-break children.
Fragments(cell) ==
    LET texts == (IF cell.text = None THEN <<>> ELSE <<cell.text.s>>)
                     \o tails(SelectSeq(cell.children, LAMBDA c : c.tag = "br"))
    IN {strip(texts[i], Whitespace) : i \in 1..Len(texts)} \ {<<>>}

\* C8: when the CVE row exists, get_cve_id returns a list without duplicates
\* whose elements are exactly the non-empty trimmed fragments of the cell (so
\* the empty list for a blank cell).
C8_CveIdsAreTheFragments ==
    (Looked({"get_cve_id"}) /\ ~RowMissing("CVE:")) =>
        /\ ret.tag = "return"
        /\ ret.val.kind = "list"
        /\ \A i, j \in 1..Len(ret.val.items) :
               ret.val.items[i] = ret.val.items[j] => i = j
        /\ {ret.val.items[i].s : i \in 1..Len(ret.val.items)}
               = Fragments(xpath_td2("CVE:")[1])

\* The trimmed text of the labeled row is there and is not a date in the format.
NotADate(label) ==
    /\ xpath_td2_text(label) # <<>>
    /\ strip(xpath_td2_text(label)[1], Whitespace) # <<>>
    /\ ~format_matches(strip(xpath_td2_text(label)[1], Whitespace),
                       securityfocus_date_format)

\* C9: get_title on a page without a title element, and a date getter on a
\* row whose text does not match the date format, fail with ExtractionError
\* and with no other kind of error.
C9_RequiredFieldsRaiseExtractionError ==
    /\ (Looked({"get_title"}) /\ html_tree.titles = <<>>)
       => ret = Raised("ExtractionError")
    /\ (Looked(DateGetters) /\ NotADate(LabelOf[call.op]))
       => ret = Raised("ExtractionError")

-----------------------------------------------------------------------------
(* Claims about the free-text tabs, checked under SpecText *)

\* The trailing texts of the line-break children of the container.
BreakTails == tails(SelectSeq(xpath_vulnerability[1], LAMBDA c : c.tag = "br"))

SomeTailContains(phrase) ==
    \E i \in 1..Len(BreakTails) : Contains(BreakTails[i], phrase)

NormalizedText == Str(strip_whitespaces(Concat(BreakTails)))

\* C10: on a page with a vulnerability container, get_exploit_description
\* returns None exactly when the trailing text of some line-break child
\* contains the exploit phrase, get_solution exactly when one contains the
\* solution phrase; otherwise they return the normalized text of the trailing
\* texts, as get_discussion always does; get_discussion never returns None.
C10_Sentinel ==
    /\ call.op = "get_discussion" => ret # Returned(None)
    /\ (/\ Looked({"get_discussion", "get_exploit_description", "get_solution"})
        /\ xpath_vulnerability # <<>>)
       => ret = CASE call.op = "get_exploit_description" ->
                       IF SomeTailContains(ExploitPhrase) THEN Returned(None)
                       ELSE Returned(NormalizedText)
                  [] call.op = "get_solution" ->
                       IF SomeTailContains(SolutionPhrase) THEN Returned(None)
                       ELSE Returned(NormalizedText)
                  [] OTHER -> Returned(NormalizedText)

\* get_exploit_description has returned None for a container where real
\* content precedes the trailing text that holds the phrase.
C10_Witness ==
    /\ Looked({"get_exploit_description"})
    /\ xpath_vulnerability # <<>>
    /\ ret = Returned(None)
    /\ Len(BreakTails) = 2
    /\ BreakTails[1] = <<"a">>
    /\ BreakTails[2] # ExploitPhrase

-----------------------------------------------------------------------------
(* Claims about the references tab, checked under SpecRef *)

\* get_references has returned the references of a loaded page.
Referenced == Looked({"get_references"}) /\ ret.tag = "return"

\* The href the i-th reference returned was made from.
HrefOf(i) == xpath_a_href(html_tree.uls[1][i])[1].href.s

ExampleBase == Str(<<"http:", "//", "example.com", "/", "advisory", "/", "1">>)
ExampleHref == <<"..", "/", "other">>
ExampleUrl == <<"http:", "//", "example.com", "/", "other">>

\* C11: in what get_references returns, the url of a reference whose href has
\* no network location, when a base URL was given, is the href resolved
\* against the base URL, and the href unchanged when the href has a network
\* location or no base URL was given; with the base
\* http://example.com/advisory/1 the href ../other gives
\* http://example.com/other.
C11_UrlResolution ==
    Referenced =>
        \A i \in 1..Len(ret.val.items) :
            /\ ret.val.items[i].url.s =
                   IF urlparse(HrefOf(i), "").netloc = <<>> /\ url # None
                   THEN urljoin(url, HrefOf(i)) ELSE HrefOf(i)
            /\ (url = ExampleBase /\ HrefOf(i) = ExampleHref)
               => ret.val.items[i].url.s = ExampleUrl

\* get_references has returned, with the base URL of the example, a resolved
\* url for the href ../other and the unchanged href for one with a network
\* location.
C11_Witness ==
    /\ Referenced
    /\ url = ExampleBase
    /\ Len(ret.val.items) = 2
    /\ HrefOf(1) = ExampleHref
    /\ ret.val.items[1].url.s = ExampleUrl
    /\ HrefOf(2) = <<"//", "other.org", "/", "x">>
    /\ ret.val.items[2].url.s = HrefOf(2)

-----------------------------------------------------------------------------
(* Claims about strip_whitespaces, checked under SpecNorm *)

\* C12: strip_whitespaces is idempotent: it returns what it is given when it
\* is given what it returned, and what it returns is a string it leaves as is.
C12_Step ==
    (/\ call.op = "strip_whitespaces"
     /\ call'.op = "strip_whitespaces"
     /\ call'.string = ret.val.s)
    => ret' = ret
C12_Idempotent ==
    /\ [](call.op = "strip_whitespaces"
          => /\ ret = Returned(Str(strip_whitespaces(call.string)))
             /\ strip_whitespaces(ret.val.s) = ret.val.s)
    /\ [][C12_Step]_vars

\* strip_whitespaces has been called on a string it had returned, one still
\* holding whitespace.
C12_Witness ==
    /\ call.op = "strip_whitespaces"
    /\ call.string = <<"a", " ", "a", "\n", "a">>
    /\ ret.val.s = call.string

-----------------------------------------------------------------------------
(* Claims about the whitespace of the free texts, checked under SpecText *)

\* The string with each maximal run of whitespace, of whatever length,
\* replaced by one space, and no whitespace at its ends.
FullyNormalized(string) ==
    LET starts == SelectSeq([i \in 1..Len(string) |-> i],
                            LAMBDA i : \/ string[i] \notin Whitespace
                                       \/ i = 1
                                       \/ string[i - 1] \notin Whitespace)
    IN strip([k \in 1..Len(starts) |->
                 IF string[starts[k]] \in Whitespace THEN " "
                 ELSE string[starts[k]]],
             Whitespace)

\* C13: the text that get_discussion, get_exploit_description or get_solution
\* returns is the accumulated text of the line-break tails with every run of
\* whitespace, a lone newline or tab included, replaced by one space and
\* nothing to trim: its only whitespace is single spaces between other
\* characters.
C13_FullyNormalized ==
    (/\ Looked({"get_discussion", "get_exploit_description", "get_solution"})
     /\ ret.tag = "return"
     /\ ret.val # None)
    => /\ ret.val.s = FullyNormalized(Concat(BreakTails))
       /\ \A i \in 1..Len(ret.val.s) :
              ret.val.s[i] \in Whitespace
              => /\ ret.val.s[i] = " "
                 /\ 1 < i
                 /\ i < Len(ret.val.s)
                 /\ ret.val.s[i + 1] \notin Whitespace

-----------------------------------------------------------------------------
(* Claims about the list of references, checked under SpecRef *)

\* The anchors of an item: its a children.
Anchors(li) == SelectSeq(li.children, LAMBDA c : c.tag = "a")

\* An item of the list that holds an anchor with a text and a href.
ListItem(li) ==
    /\ li.tag = "li"
    /\ Anchors(li) # <<>>
    /\ Anchors(li)[1].text # None
    /\ Anchors(li)[1].href # None

\* The text of the anchor followed by its trailing text, if it has one.
DescriptionOf(li) ==
    Anchors(li)[1].text.s
        \o (IF Anchors(li)[1].tail = None THEN <<>> ELSE Anchors(li)[1].tail.s)

\* C14: for a first list made of items with an anchor, get_references returns
\* one reference for each item, in the order of the items, the same item
\* given twice giving two references; the description of each is the text of
\* the anchor followed by its trailing text, or the text alone when the
\* anchor has no trailing text.
C14_OneReferencePerItem ==
    (/\ Looked({"get_references"})
     /\ html_tree.uls # <<>>
     /\ \A i \in 1..Len(html_tree.uls[1]) : ListItem(html_tree.uls[1][i]))
    => /\ ret.tag = "return"
       /\ Len(ret.val.items) = Len(html_tree.uls[1])
       /\ \A i \in 1..Len(html_tree.uls[1]) :
              ret.val.items[i].description.s = DescriptionOf(html_tree.uls[1][i])

====
